---------------------------- MODULE Spec2Model ----------------------------
(***************************************************************************)
(* A model of src/app.py: the Candid grants fetcher.                       *)
(*                                                                         *)
(*   - GrantFetcher._build_query_params   (pure function)                  *)
(*   - GrantFetcher.get_grants_transactions / fetch_grants /               *)
(*     save_grants_to_file                                                 *)
(*   - validate_input, save_search_config, load_search_config              *)
(*   - the menu handlers of main()                                         *)
(*                                                                         *)
(* Representation of Python values.                                        *)
(*   Optional[int] : <<>> is None, <<n>> is the int n.                     *)
(*   str           : a sequence of tokens [t, v]; t = "int" is the decimal *)
(*                   numeral of v, "sep" a comma, "sp" white space,        *)
(*                   "word" the v-th code word, "junk" any other text.     *)
(*                   The empty string is <<>>.                             *)
(*   (a, b) / [a,b]: [kind |-> "tuple" or "list", a |-> ..., b |-> ...];   *)
(*                   a tuple never equals a list, as in Python.            *)
(*   exceptions    : a result record carries exc, "none" when the call     *)
(*                   returns.                                              *)
(***************************************************************************)
EXTENDS Integers, Sequences, FiniteSets, TLC

VARIABLES
    year_range,          \* main(): year_range
    dollar_range,        \* main(): dollar_range
    subjects,            \* main(): subjects
    populations,         \* main(): populations
    locations,           \* main(): locations
    support_strategies,  \* main(): support_strategies
    output_prefix,       \* main(): output_prefix
    saved_files,         \* saved_searches/<name>.json : name -> JSON text or NoFile
    saved_from,          \* history: the in-memory config each file was written from
    last,                \* history: the menu handler that ran last and how it ended
    ops,                 \* number of menu handlers run so far
    page_number,         \* argument of the _build_query_params call under test
    built,               \* result of the _build_query_params call under test
    log,                 \* history: HTTP requests and time.sleep(self.delay) calls
    runs,                \* history: the fetch_grants calls of the last handler
    api_pages,           \* the remote result set: per page, has it a rows field
    result_files         \* <prefix>_pages_<s>-<e>.json : written result files

vars == <<year_range, dollar_range, subjects, populations, locations,
          support_strategies, output_prefix, saved_files, saved_from, last, ops,
          page_number, built, log, runs, api_pages, result_files>>

filterVars == <<year_range, dollar_range, subjects, populations, locations,
                support_strategies, output_prefix>>
storeVars == <<saved_files, saved_from>>
buildVars == <<page_number, built>>
fetchVars == <<log, runs, api_pages, result_files>>

-----------------------------------------------------------------------------
(* Python values *)

None == <<>>
Some(n) == <<n>>
IsNone(o) == o = <<>>
Val(o) == o[1]
\* Python truthiness of an Optional[int]: None and 0 are false
Truthy(o) == o # <<>> /\ o[1] # 0

Tuple(a, b) == [kind |-> "tuple", a |-> a, b |-> b]
List2(a, b) == [kind |-> "list", a |-> a, b |-> b]

Num(n) == [t |-> "int", v |-> n]
Sep == [t |-> "sep", v |-> 0]
Sp == [t |-> "sp", v |-> 0]
Junk == [t |-> "junk", v |-> 0]
Word(k) == [t |-> "word", v |-> k]

\* str(n) for an int n
Str(n) == <<Num(n)>>

\* ",".join(items): the items with a comma between neighbours
RECURSIVE CommaJoin(_)
CommaJoin(items) ==
    IF items = <<>> THEN <<>>
    ELSE IF Len(items) = 1 THEN items[1]
    ELSE items[1] \o <<Sep>> \o CommaJoin(Tail(items))

\* s.split(","): the pieces of s between commas; "".split(",") is [""]
RECURSIVE SplitFrom(_, _)
SplitFrom(s, piece) ==
    IF s = <<>> THEN <<piece>>
    ELSE IF s[1] = Sep THEN <<piece>> \o SplitFrom(Tail(s), <<>>)
    ELSE SplitFrom(Tail(s), Append(piece, s[1]))

CommaSplit(s) == SplitFrom(s, <<>>)

\* s.strip()
RECURSIVE LStrip(_)
LStrip(s) == IF s # <<>> /\ s[1] = Sp THEN LStrip(Tail(s)) ELSE s

RECURSIVE RStrip(_)
RStrip(s) ==
    IF s # <<>> /\ s[Len(s)] = Sp THEN RStrip(SubSeq(s, 1, Len(s) - 1)) ELSE s

Strip(s) == RStrip(LStrip(s))

\* map(str, range(lo, hi)), as a list
RECURSIVE StrRange(_, _)
StrRange(lo, hi) == IF lo >= hi THEN <<>> ELSE <<Str(lo)>> \o StrRange(lo + 1, hi)


-----------------------------------------------------------------------------
(* Bounds and input sets *)

\* validate_input(..., min_value=1900, max_value=2100) for the years
MinYear == 1900
MaxYear == 2100

\* the years tried are FirstYear .. FirstYear + YearSpan
YearSpan == 2
FirstYear == MinYear + 120
Years == FirstYear..(FirstYear + YearSpan)

\* the page numbers tried are 1 .. MaxPageNumber
MaxPageNumber == 2

Amounts == {0, 100, 25000}

OptYears == {None} \cup {Some(y) : y \in Years}
OptAmounts == {None} \cup {Some(a) : a \in Amounts}
Kinds == {"tuple", "list"}

\* the code lists tried for subjects, populations, locations, support_strategies
CodeLists == {<<>>, << <<Word(1)>>, <<Word(2)>> >>}

-----------------------------------------------------------------------------
(* GrantFetcher._build_query_params *)

NoParams == [k \in {} |-> 0]
Raised(e) == [exc |-> e, params |-> NoParams]
Returned(p) == [exc |-> "none", params |-> p]
NotBuilt == [exc |-> "not called", params |-> NoParams]

HasKey(p, k) == k \in DOMAIN p

FixedParams(page) ==
    [page |-> page, include_gov |-> "yes", sort_by |-> "year_issued",
     sort_order |-> "desc", format |-> "json"]

LocationParams(locs) ==
    IF locs # <<>>
    THEN [location |-> CommaJoin(locs), geo_id_type |-> "geonameid",
          location_type |-> "area_served"]
    ELSE NoParams

\* line 87: a list never equals the tuple (None, None)
YearGiven(yr) == yr # Tuple(None, None)

\* line 88: range(start_year, end_year + 1) raises TypeError on None
YearRaises(yr) == YearGiven(yr) /\ (IsNone(yr.a) \/ IsNone(yr.b))

\* a mutant of YearParams: range(start_year, end_year), the end year left out
YearParams_EndExcluded(yr) ==
    IF YearGiven(yr)
    THEN [year |-> CommaJoin(StrRange(Val(yr.a), Val(yr.b)))]
    ELSE NoParams

YearParams(yr) ==
    IF YearGiven(yr)
    THEN [year |-> CommaJoin(StrRange(Val(yr.a), Val(yr.b) + 1))]
    ELSE NoParams

ListParam(key, codes) ==
    IF codes # <<>> THEN (key :> CommaJoin(codes)) ELSE NoParams

MinAmtParams(dr) ==
    IF ~IsNone(dr.a) THEN [min_amt |-> Val(dr.a)] ELSE NoParams

\* a mutant of MaxAmtParams: max_amt is added only under "if min_amt"
MaxAmtParams_GatedByMin(dr) ==
    IF ~IsNone(dr.a) /\ ~IsNone(dr.b) THEN [max_amt |-> Val(dr.b)] ELSE NoParams

MaxAmtParams(dr) ==
    IF ~IsNone(dr.b) THEN [max_amt |-> Val(dr.b)] ELSE NoParams

_build_query_params(page, yr, dr, subj, pop, loc, sup) ==
    IF YearRaises(yr) THEN Raised("TypeError")
    ELSE Returned(FixedParams(page) @@ LocationParams(loc) @@ YearParams(yr)
                  @@ ListParam("subject", subj) @@ ListParam("population", pop)
                  @@ ListParam("support", sup)
                  @@ MinAmtParams(dr) @@ MaxAmtParams(dr))

-----------------------------------------------------------------------------
(* The state main() starts the menu loop in: lines 220-226 *)

\* a file store maps a name to <<>> (no such file) or <<content>>
NoFile == <<>>
SearchNames == {"a", "b"}
IdleOp == [op |-> "none", exc |-> "none"]

InitFilter ==
    /\ year_range = Tuple(None, None)
    /\ dollar_range = Tuple(None, None)
    /\ subjects = <<>>
    /\ populations = <<>>
    /\ locations = <<>>
    /\ support_strategies = <<>>
    /\ output_prefix = <<>>

InitStore ==
    /\ saved_files = [n \in SearchNames |-> NoFile]
    /\ saved_from = [n \in SearchNames |-> NoFile]

InitFetch ==
    /\ log = <<>>
    /\ runs = <<>>
    /\ api_pages = <<>>
    /\ result_files = {}

InitBuild ==
    /\ page_number = 1
    /\ built = NotBuilt

-----------------------------------------------------------------------------
(* SpecBuild: _build_query_params applied to every argument in the input   *)
(* sets                                                                    *)

BuildInit ==
    /\ year_range \in [kind : Kinds, a : OptYears, b : OptYears]
    /\ dollar_range \in [kind : Kinds, a : OptAmounts, b : OptAmounts]
    /\ subjects \in CodeLists
    /\ populations \in CodeLists
    /\ locations \in CodeLists
    /\ support_strategies \in CodeLists
    /\ output_prefix = <<>>
    /\ page_number \in 1..MaxPageNumber
    /\ built = NotBuilt
    /\ InitStore /\ InitFetch
    /\ last = IdleOp
    /\ ops = 0

Build ==
    /\ built = NotBuilt
    /\ built' = _build_query_params(page_number, year_range, dollar_range,
                                    subjects, populations, locations,
                                    support_strategies)
    /\ UNCHANGED <<filterVars, storeVars, fetchVars, page_number, last, ops>>

BuildNext == Build

SpecBuild == BuildInit /\ [][BuildNext]_vars


-----------------------------------------------------------------------------
(* Properties of _build_query_params, checked under SpecBuild *)

\* the data-model invariant of a filter: an end only with a start, start <= end
RangeOrdered(r) == ~IsNone(r.b) => (~IsNone(r.a) /\ Val(r.a) <= Val(r.b))

DataModelInvariant(yr, dr) == RangeOrdered(yr) /\ RangeOrdered(dr)

RangeAbsent(r) == IsNone(r.a) /\ IsNone(r.b)

\* "lo,lo+1,...,hi" written out token by token
YearString(lo, hi) ==
    [i \in 1..(2 * (hi - lo) + 1) |->
        IF i % 2 = 1 THEN Num(lo + (i - 1) \div 2) ELSE Sep]

\* C4: a mapping returned by _build_query_params has a year key exactly when
\* the year range is not (absent, absent), and for a range (start, end) with
\* start <= end its value is the comma-joined list start, start+1, ..., end.
C4_YearKey ==
    built.exc = "none" =>
        /\ HasKey(built.params, "year") <=> ~RangeAbsent(year_range)
        /\ (~IsNone(year_range.a) /\ ~IsNone(year_range.b)
              /\ Val(year_range.a) <= Val(year_range.b))
             => built.params.year = YearString(Val(year_range.a), Val(year_range.b))

C4_Witness ==
    /\ built.exc = "none"
    /\ year_range = Tuple(Some(2020), Some(2022))
    /\ built.params.year = <<Num(2020), Sep, Num(2021), Sep, Num(2022)>>

\* C5: _build_query_params has no error conditions: for every filter that
\* satisfies the data-model invariant, a start year without an end year
\* included, the call returns a mapping and does not raise.
C5_NeverRaises ==
    (/\ built # NotBuilt
     /\ year_range.kind = "tuple" /\ dollar_range.kind = "tuple"
     /\ DataModelInvariant(year_range, dollar_range))
        => built.exc = "none"

\* C6 as stated: min_amt is present exactly when the minimum is, and max_amt is
\* present only when the minimum is present too (min gates max).
C6_MinGatesMax ==
    built.exc = "none" =>
        /\ HasKey(built.params, "min_amt") <=> ~IsNone(dollar_range.a)
        /\ HasKey(built.params, "max_amt") => ~IsNone(dollar_range.a)

\* C6 as amended: min_amt is present exactly when the minimum is and max_amt
\* exactly when the maximum is, each with its value and whatever the other is:
\* (25000, absent) gives min_amt=25000 and no max_amt, (absent, 100) gives
\* max_amt=100 and no min_amt.
C6_AmountKeys ==
    built.exc = "none" =>
        /\ HasKey(built.params, "min_amt") <=> ~IsNone(dollar_range.a)
        /\ HasKey(built.params, "max_amt") <=> ~IsNone(dollar_range.b)
        /\ ~IsNone(dollar_range.a) => built.params.min_amt = Val(dollar_range.a)
        /\ ~IsNone(dollar_range.b) => built.params.max_amt = Val(dollar_range.b)

C6_Witness ==
    /\ built.exc = "none"
    /\ dollar_range = Tuple(None, Some(100))
    /\ ~HasKey(built.params, "min_amt")
    /\ built.params.max_amt = 100

-----------------------------------------------------------------------------
(* validate_input (value_type is int at every call) and Prompt.ask *)

Parsed(v) == [exc |-> "none", val |-> v]
ValueError == [exc |-> "ValueError", val |-> None]

\* int(value) succeeds exactly on a decimal numeral
IsNumeral(value) == Len(value) = 1 /\ value[1].t = "int"

\* a mutant of validate_input: the min_value test is missing
validate_input_NoMin(value, min_value, max_value) ==
    IF value = <<>> THEN Parsed(None)
    ELSE IF ~IsNumeral(value) THEN ValueError
    ELSE IF ~IsNone(max_value) /\ value[1].v > Val(max_value) THEN ValueError
    ELSE Parsed(Some(value[1].v))

validate_input(value, min_value, max_value) ==
    IF value = <<>> THEN Parsed(None)
    ELSE IF ~IsNumeral(value) THEN ValueError
    ELSE IF ~IsNone(min_value) /\ value[1].v < Val(min_value) THEN ValueError
    ELSE IF ~IsNone(max_value) /\ value[1].v > Val(max_value) THEN ValueError
    ELSE Parsed(Some(value[1].v))

\* Prompt.ask(..., default=d): an empty line gives the default, any other
\* line is returned stripped
PromptAsk(line, default) == IF line = <<>> THEN default ELSE Strip(line)

\* str(x) if x else ""
DefaultOf(o) == IF Truthy(o) THEN Str(Val(o)) ELSE <<>>

\* time.strftime("%Y%m%d_%H%M%S")
Timestamp == <<[t |-> "time", v |-> 0]>>

-----------------------------------------------------------------------------
(* Lines the user may type at the prompts of "Enter Search Parameters" *)

\* number of menu handlers run in one session
MaxOps == 3

EntryYears == {MinYear - 1, MinYear, MinYear + 1, MaxYear + 1}
EntryAmounts == {0 - 1, 0, 100}

YearLines == {<<>>, <<Sp>>, <<Junk>>} \cup {Str(y) : y \in EntryYears}
AmountLines == {<<>>, <<Sp>>, <<Junk>>} \cup {Str(a) : a \in EntryAmounts}

\* the lines typed at the four list prompts and the prefix prompt: all
\* empty, or codes and a name
TextInputs ==
    { <<<<>>, <<>>, <<>>, <<>>, <<>>>>,
      <<<<Word(1), Sep, Word(2)>>, <<Word(3)>>, <<Word(4), Sep, Word(5)>>,
        <<Word(6)>>, <<Word(9)>>>> }

-----------------------------------------------------------------------------
(* Menu choice 1, "Enter Search Parameters": lines 241-272 *)

Ended(op, exc) == [op |-> op, exc |-> exc]

\* lines 257, 261, 265, 269
ListFrom(line, current) ==
    LET input == PromptAsk(line, CommaJoin(current))
    IN  IF input # <<>> THEN CommaSplit(input) ELSE <<>>

\* a ValueError leaves the handler: what was assigned before it stays
EnterAborts(yr, dr) ==
    /\ year_range' = yr
    /\ dollar_range' = dr
    /\ UNCHANGED <<subjects, populations, locations, support_strategies,
                   output_prefix>>
    /\ last' = Ended("enter", "ValueError")

\* lines 255-272
EnterLists(yr, dr) ==
    \E ls \in TextInputs :
        /\ year_range' = yr
        /\ dollar_range' = dr
        /\ subjects' = ListFrom(ls[1], subjects)
        /\ populations' = ListFrom(ls[2], populations)
        /\ locations' = ListFrom(ls[3], locations)
        /\ support_strategies' = ListFrom(ls[4], support_strategies)
        /\ output_prefix' =
               PromptAsk(ls[5], IF output_prefix # <<>> THEN output_prefix
                                ELSE Timestamp)
        /\ last' = Ended("enter", "none")

\* line 252: the maximum is asked for only when min_amt is truthy
EnterMaxAmt(yr, min_amt) ==
    IF Truthy(min_amt)
    THEN \E line \in AmountLines :
            LET max_amt == validate_input(PromptAsk(line, DefaultOf(dollar_range.b)),
                                          min_amt, None)
            IN  IF max_amt.exc # "none" THEN EnterAborts(yr, dollar_range)
                ELSE EnterLists(yr, Tuple(min_amt, max_amt.val))
    ELSE EnterLists(yr, Tuple(min_amt, None))

\* line 250
EnterMinAmt(yr) ==
    \E line \in AmountLines :
        LET min_amt == validate_input(PromptAsk(line, DefaultOf(dollar_range.a)),
                                      Some(0), None)
        IN  IF min_amt.exc # "none" THEN EnterAborts(yr, dollar_range)
            ELSE EnterMaxAmt(yr, min_amt.val)

\* line 246: the end year is asked for only when start_year is truthy
EnterEndYear(start_year) ==
    IF Truthy(start_year)
    THEN \E line \in YearLines :
            LET end_year == validate_input(PromptAsk(line, DefaultOf(year_range.b)),
                                           start_year, Some(MaxYear))
            IN  IF end_year.exc # "none" THEN EnterAborts(year_range, dollar_range)
                ELSE EnterMinAmt(Tuple(start_year, end_year.val))
    ELSE EnterMinAmt(Tuple(start_year, None))

\* line 244
EnterSearchParameters ==
    /\ ops < MaxOps
    /\ ops' = ops + 1
    /\ \E line \in YearLines :
        LET start_year == validate_input(PromptAsk(line, DefaultOf(year_range.a)),
                                         Some(MinYear), Some(MaxYear))
        IN  IF start_year.exc # "none" THEN EnterAborts(year_range, dollar_range)
            ELSE EnterEndYear(start_year.val)
    /\ UNCHANGED <<storeVars, buildVars, fetchVars>>

-----------------------------------------------------------------------------
(* Menu choices 4 and 5: save_search_config, load_search_config *)

\* json.dump: a tuple and a list are both written as a JSON array
JsonArray(pair) == <<pair.a, pair.b>>

\* json.load: a JSON array is read as a list
FromJsonArray(arr) == List2(arr[1], arr[2])

\* lines 317-325
SearchConfig ==
    [year_range |-> year_range, dollar_range |-> dollar_range,
     subjects |-> subjects, populations |-> populations, locations |-> locations,
     support_strategies |-> support_strategies, output_prefix |-> output_prefix]

\* json.dump(config, f, indent=2)
JsonDump(config) ==
    [config EXCEPT !.year_range = JsonArray(@), !.dollar_range = JsonArray(@)]

\* json.load(f)
JsonLoad(text) ==
    [text EXCEPT !.year_range = FromJsonArray(@), !.dollar_range = FromJsonArray(@)]

\* lines 313-326
SaveSearchConfiguration ==
    /\ ops < MaxOps
    /\ ops' = ops + 1
    /\ \E search_name \in SearchNames :
        /\ saved_files' = [saved_files EXCEPT ![search_name] = <<JsonDump(SearchConfig)>>]
        /\ saved_from' = [saved_from EXCEPT ![search_name] = <<SearchConfig>>]
        /\ last' = [op |-> "save", exc |-> "none", name |-> search_name]
    /\ UNCHANGED <<filterVars, buildVars, fetchVars>>

\* get_saved_searches: lines 202-204
SavedSearches == {n \in SearchNames : saved_files[n] # NoFile}

\* lines 328-346
LoadSearchConfiguration ==
    /\ ops < MaxOps
    /\ ops' = ops + 1
    /\ \/ /\ SavedSearches # {}
          /\ \E selected_search \in SavedSearches :
                LET search_config == JsonLoad(saved_files[selected_search][1])
                IN  /\ year_range' = search_config.year_range
                    /\ dollar_range' = search_config.dollar_range
                    /\ subjects' = search_config.subjects
                    /\ populations' = search_config.populations
                    /\ locations' = search_config.locations
                    /\ support_strategies' = search_config.support_strategies
                    /\ output_prefix' = search_config.output_prefix
                    /\ last' = [op |-> "load", exc |-> "none",
                                name |-> selected_search]
       \/ /\ SavedSearches = {}
          /\ last' = Ended("load", "nothing saved")
          /\ UNCHANGED filterVars
    /\ UNCHANGED <<storeVars, buildVars, fetchVars>>

-----------------------------------------------------------------------------
(* The remote API and GrantFetcher.get_grants_transactions: lines 46-64 *)

\* the pages tried have numbers 1 .. MaxPages
MaxPages == 3

PageKinds == {"rows", "no rows"}

\* the records of page p; every page that has rows has two
Rows(p) == <<[page |-> p, row |-> 1], [page |-> p, row |-> 2]>>

HasRows(p) == p \in DOMAIN api_pages /\ api_pages[p] = "rows"

\* response.json(): "rows" is an optional field of "data"
Envelope(p) ==
    [has_rows |-> HasRows(p), rows |-> IF HasRows(p) THEN Rows(p) ELSE <<>>,
     num_pages |-> Len(api_pages)]

NoData == [has_rows |-> FALSE, rows |-> <<>>, num_pages |-> 0]

Request(p) == [e |-> "request", page |-> p]
Sleep == [e |-> "sleep", page |-> 0]

\* q is the filter, fail tells whether requests.get / raise_for_status fails
get_grants_transactions(page, q, fail) ==
    LET params == _build_query_params(page, q.year_range, q.dollar_range, q.subjects,
                                     q.populations, q.locations,
                                     q.support_strategies)
    IN  IF params.exc # "none"
        THEN [exc |-> params.exc, events |-> <<>>, data |-> NoData]
        ELSE IF fail
        THEN [exc |-> "RequestException",
              events |-> <<Request(params.params.page)>>, data |-> NoData]
        ELSE [exc |-> "none", events |-> <<Request(params.params.page)>>,
              data |-> Envelope(params.params.page)]

-----------------------------------------------------------------------------
(* GrantFetcher.fetch_grants: lines 107-129 *)

\* lines 113-127, from page_number on; fails is the set of the pages of this
\* call whose request fails
RECURSIVE FetchLoop(_, _, _, _, _, _)
FetchLoop(page, num_pages, q, fails, all_grants, events) ==
    IF page > num_pages
    THEN [exc |-> "none", grants |-> all_grants, events |-> events]
    ELSE LET got == get_grants_transactions(page, q, page \in fails)
         IN  IF got.exc # "none"
             THEN \* except Exception: break
                  [exc |-> "none", grants |-> all_grants,
                   events |-> events \o got.events]
             ELSE FetchLoop(page + 1, num_pages, q, fails,
                            IF got.data.has_rows
                            THEN all_grants \o got.data.rows
                            ELSE all_grants,
                            events \o got.events \o <<Sleep>>)

\* a mutant of fetch_grants: no try/except around the page request
fetch_grants_NoCatch(num_pages, q, fails) ==
    IF IsNone(num_pages)
    THEN [exc |-> "TypeError", grants |-> <<>>, events |-> <<>>]
    ELSE LET r == FetchLoop(1, Val(num_pages), q, fails, <<>>, <<>>)
         IN  IF fails \cap (1..Val(num_pages)) # {}
             THEN [exc |-> "RequestException", grants |-> <<>>, events |-> r.events]
             ELSE r

\* num_pages is an Optional[int]: range(1, None + 1) raises TypeError
fetch_grants(num_pages, q, fails) ==
    IF IsNone(num_pages)
    THEN [exc |-> "TypeError", grants |-> <<>>, events |-> <<>>]
    ELSE FetchLoop(1, Val(num_pages), q, fails, <<>>, <<>>)

\* save_grants_to_file: lines 131-136; a file of the same name is replaced
FileName(prefix, page_start, page_end) ==
    [prefix |-> prefix, page_start |-> page_start, page_end |-> page_end]

save_grants_to_file(files, grants, prefix, page_start, page_end) ==
    {f \in files : f.name # FileName(prefix, page_start, page_end)}
        \cup {[name |-> FileName(prefix, page_start, page_end), grants |-> grants]}

-----------------------------------------------------------------------------
(* Menu choice 3, "Fetch Grants Data": lines 279-311 *)

\* number of "Fetch Grants Data" handlers run in one session
MaxFetches == 1

PageLines == {<<>>, <<Sp>>, <<Junk>>} \cup {Str(n) : n \in 0..(MaxPages + 1)}
ContinueChoices == {"Y", "N"}

\* which page requests of a fetch_grants(num_pages, ...) call fail
FailSets(num_pages) ==
    IF IsNone(num_pages) THEN {{}} ELSE SUBSET (1..Val(num_pages))

Run(num_pages, fails, r) ==
    [num_pages |-> num_pages, fails |-> fails, exc |-> r.exc, grants |-> r.grants,
     events |-> r.events]

FetchEnds(exc, events, calls, files) ==
    /\ log' = events
    /\ runs' = calls
    /\ result_files' = files
    /\ last' = Ended("fetch", exc)

\* lines 299-309
FetchMore(num_pages, total_pages, events, first, file1) ==
    \E continue_choice \in ContinueChoices :
        LET remaining_pages == total_pages - num_pages
        IN  IF continue_choice = "Y" /\ remaining_pages > 0
            THEN \E line \in PageLines :
                    LET additional_pages ==
                            validate_input(PromptAsk(line, Str(remaining_pages)),
                                           Some(1), Some(remaining_pages))
                    IN  IF additional_pages.exc # "none"
                        THEN FetchEnds("ValueError", events, <<first>>, file1)
                        ELSE \E fails \in FailSets(additional_pages.val) :
                            LET more == fetch_grants(additional_pages.val, SearchConfig,
                                                     fails)
                                second == Run(additional_pages.val, fails, more)
                            IN  IF more.exc # "none"
                                THEN FetchEnds(more.exc, events \o more.events,
                                               <<first, second>>, file1)
                                ELSE FetchEnds("none", events \o more.events,
                                         <<first, second>>,
                                         save_grants_to_file(file1,
                                             first.grants \o more.grants,
                                             output_prefix, num_pages + 1,
                                             num_pages + Val(additional_pages.val)))
            ELSE FetchEnds("none", events, <<first>>, file1)

\* lines 290-295
FetchFirst(total_pages, events) ==
    \E line \in PageLines :
        LET num_pages == validate_input(PromptAsk(line, Str(10)), Some(1),
                                        Some(total_pages))
        IN  IF num_pages.exc # "none"
            THEN FetchEnds("ValueError", events, <<>>, result_files)
            ELSE \E fails \in FailSets(num_pages.val) :
                LET grants == fetch_grants(num_pages.val, SearchConfig, fails)
                    first == Run(num_pages.val, fails, grants)
                IN  IF grants.exc # "none"
                    THEN FetchEnds(grants.exc, events \o grants.events, <<first>>,
                                   result_files)
                    ELSE FetchMore(Val(num_pages.val), total_pages,
                                   events \o grants.events, first,
                                   save_grants_to_file(result_files, grants.grants,
                                                       output_prefix, 1,
                                                       Val(num_pages.val)))

\* lines 283-286
FetchHandler ==
    /\ ops' = ops + 1
    /\ \E fail \in BOOLEAN :
        LET grants_data == get_grants_transactions(1, SearchConfig, fail)
        IN  IF grants_data.exc # "none"
            THEN FetchEnds(grants_data.exc, grants_data.events, <<>>, result_files)
            ELSE FetchFirst(grants_data.data.num_pages, grants_data.events)
    /\ UNCHANGED <<filterVars, storeVars, buildVars, api_pages>>

-----------------------------------------------------------------------------
(* SpecFetch: "Fetch Grants Data" against every remote result set of at    *)
(* most MaxPages pages, for filters the menu can leave in the session      *)

FetchFilters ==
    { [year_range |-> Tuple(Some(FirstYear), None),
       dollar_range |-> Tuple(None, None),
       lists |-> <<>>, output_prefix |-> Timestamp],
      [year_range |-> Tuple(Some(FirstYear), Some(FirstYear + 1)),
       dollar_range |-> Tuple(Some(100), None),
       lists |-> << <<Word(1)>>, <<Word(2)>> >>, output_prefix |-> <<Word(9)>>],
      [year_range |-> List2(None, None), dollar_range |-> List2(None, None),
       lists |-> <<>>, output_prefix |-> Timestamp] }

FetchInit ==
    /\ \E q \in FetchFilters :
        /\ year_range = q.year_range
        /\ dollar_range = q.dollar_range
        /\ subjects = q.lists
        /\ populations = q.lists
        /\ locations = q.lists
        /\ support_strategies = q.lists
        /\ output_prefix = q.output_prefix
    /\ api_pages \in UNION {[1..total_pages -> PageKinds] : total_pages \in 0..MaxPages}
    /\ log = <<>>
    /\ runs = <<>>
    /\ result_files = {}
    /\ InitStore /\ InitBuild
    /\ last = IdleOp
    /\ ops = 0

FetchGrantsData == ops < MaxFetches /\ FetchHandler

FetchNext == FetchGrantsData

SpecFetch == FetchInit /\ [][FetchNext]_vars

-----------------------------------------------------------------------------
(* The menu loop of main(): lines 228-356 *)

\* the remote result set the session queries
SessionPages == <<"rows">>

Init ==
    /\ InitFilter /\ InitStore /\ InitBuild
    /\ log = <<>>
    /\ runs = <<>>
    /\ api_pages = SessionPages
    /\ result_files = {}
    /\ last = IdleOp
    /\ ops = 0

FetchData == ops < MaxOps /\ FetchHandler

Next ==
    \/ EnterSearchParameters
    \/ FetchData
    \/ SaveSearchConfiguration
    \/ LoadSearchConfiguration

Spec == Init /\ [][Next]_vars

-----------------------------------------------------------------------------
(* Properties of the menu session, checked under Spec *)

Loaded == last.op = "load" /\ last.exc = "none"

\* the in-memory configuration the loaded file was written from
SavedConfig == saved_from[last.name][1]

BuildOf(q, page) ==
    _build_query_params(page, q.year_range, q.dollar_range, q.subjects,
                       q.populations, q.locations, q.support_strategies)

\* C7: loading a name restores a filter set equal in every field to the one
\* most recently saved under that name.
C7_RoundTrip == Loaded => SearchConfig = SavedConfig

\* C8: after any sequence of menu handlers the session filter satisfies the
\* data-model invariant: an end year only with a start year and start <= end,
\* a maximum amount only with a minimum and min <= max.
C8_FilterInvariant == DataModelInvariant(year_range, dollar_range)

\* an entry that set an ordered year range and then failed validation at the
\* dollar prompts, with the earlier dollar range still in place
C8_Witness ==
    /\ last = Ended("enter", "ValueError")
    /\ ~IsNone(year_range.b) /\ Val(year_range.a) < Val(year_range.b)
    /\ ~IsNone(dollar_range.b)

\* C10: the query parameters built from the filter restored by a load equal
\* those built from the filter as it was when saved; in particular the build
\* still succeeds when it succeeded before the save.
C10_SameQuery ==
    Loaded =>
        \A page \in 1..MaxPageNumber :
            LET restored == BuildOf(SearchConfig, page)
                original == BuildOf(SavedConfig, page)
            IN  /\ restored.exc = original.exc
                /\ restored.exc = "none" => restored.params = original.params

-----------------------------------------------------------------------------
(* Properties of "Fetch Grants Data", checked under SpecFetch *)

\* the page numbers of the requests among events, in order
Pages(events) ==
    LET at == {i \in 1..Len(events) : events[i].e = "request"}
        nth(k) == CHOOSE i \in at : Cardinality({j \in at : j <= i}) = k
    IN  [k \in 1..Cardinality(at) |-> events[nth(k)].page]

\* the rows the API holds for pages lo..hi, in page order
RECURSIVE RowsOfPages(_, _)
RowsOfPages(lo, hi) ==
    IF hi < lo THEN <<>>
    ELSE RowsOfPages(lo, hi - 1) \o (IF HasRows(hi) THEN Rows(hi) ELSE <<>>)

\* the first page of a fetch_grants call whose request fails, num_pages + 1 if none
FirstFailing(r) ==
    LET n == Val(r.num_pages)
    IN  IF r.fails \cap (1..n) = {} THEN n + 1
        ELSE CHOOSE p \in r.fails \cap (1..n) : \A o \in r.fails \cap (1..n) : p <= o

Consecutive(lo, hi) == [i \in 1..(hi - lo + 1) |-> lo + i - 1]

Min2(a, b) == IF a <= b THEN a ELSE b

\* C1: every fetch_grants call for n >= 1 pages returns without raising, its
\* result is the rows of the pages before the first failing page in page order
\* (a page without a rows field adds nothing and does not stop the loop), and
\* no page after the first failing one is requested.
C1_PartialResults ==
    \A i \in 1..Len(runs) :
        LET r == runs[i]
        IN  (~IsNone(r.num_pages) /\ Val(r.num_pages) >= 1) =>
                /\ r.exc = "none"
                /\ r.grants = RowsOfPages(1, FirstFailing(r) - 1)
                /\ Pages(r.events)
                      = Consecutive(1, Min2(FirstFailing(r), Val(r.num_pages)))

\* page 2 of a 3-page request fails after a page 1 with rows
C1_Witness ==
    /\ Len(runs) >= 1
    /\ runs[1].num_pages = Some(3)
    /\ runs[1].fails = {2}
    /\ HasRows(1)
    /\ runs[1].grants = Rows(1)
    /\ Pages(runs[1].events) = <<1, 2>>

\* C2: a continuation after a first run of num_pages pages requests pages
\* num_pages+1 .. num_pages+additional_pages (absent a failure) and no page
\* of the first run.
C2_ContinuationPages ==
    (/\ Len(runs) = 2 /\ runs[2].exc = "none"
     /\ ~IsNone(runs[2].num_pages) /\ runs[2].fails = {})
        => Pages(runs[2].events)
              = Consecutive(Val(runs[1].num_pages) + 1,
                            Val(runs[1].num_pages) + Val(runs[2].num_pages))

\* C3: every HTTP request is followed by a sleep of the configured delay
\* before the next HTTP request is issued.
C3_DelayBetweenRequests ==
    \A i \in 1..(Len(log) - 1) :
        log[i].e = "request" => log[i + 1].e = "sleep"

\* C9: every result file <prefix>_pages_<start>-<end>.json holds exactly the
\* rows of the API pages start..end, in page order.
C9_FileHoldsItsPages ==
    \A f \in result_files :
        f.grants = RowsOfPages(f.name.page_start, f.name.page_end)

=============================================================================
